---- MODULE Spec2Model ----
(***************************************************************************)
(* Model of the OpenWeatherMap MCP server: the call-tool handler, the      *)
(* get-current-weather tool (executeCurrentWeatherTool) and the            *)
(* WeatherService it drives (parseLocation, geocodeLocation,               *)
(* getCurrentWeather).                                                     *)
(*                                                                         *)
(* Representation of JavaScript values:                                    *)
(*   - a string the code inspects character by character (location) is a   *)
(*     sequence of one-character strings; Str joins it into a string;      *)
(*   - a number is the record [m |-> mantissa, e |-> exponent] standing    *)
(*     for m * 10^(-e), normalised so that equal numbers are equal         *)
(*     records;                                                            *)
(*   - undefined and null are the marker records Undefined and Null;       *)
(*   - an object is a record, an absent property is an absent field;       *)
(*   - a text built by concatenation is the sequence of the concatenated   *)
(*     pieces (tokens); Text joins the tokens into the string itself.      *)
(***************************************************************************)
EXTENDS Integers, Sequences, FiniteSets, TLC

VARIABLES weatherService, timeZoneOffset, calls

vars == <<weatherService, timeZoneOffset, calls>>

----------------------------------------------------------------------------
(* Bounds of the model *)

\* longest location string enumerated by the parseLocation specification
MaxLen == 5

----------------------------------------------------------------------------
(* JavaScript values *)

Undefined == [js |-> "undefined"]

Null == [js |-> "null"]

Digits == {"0", "1", "2", "3", "4", "5", "6", "7", "8", "9"}

DigitValue(ch) ==
  CASE ch = "0" -> 0 [] ch = "1" -> 1 [] ch = "2" -> 2 [] ch = "3" -> 3
    [] ch = "4" -> 4 [] ch = "5" -> 5 [] ch = "6" -> 6 [] ch = "7" -> 7
    [] ch = "8" -> 8 [] ch = "9" -> 9

RECURSIVE Pow10(_)
Pow10(n) == IF n = 0 THEN 1 ELSE 10 * Pow10(n - 1)

Abs(n) == IF n < 0 THEN -n ELSE n

\* the number m * 10^(-e) in normal form (no trailing zero in the fraction)
RECURSIVE Num(_, _)
Num(m, e) ==
  IF e > 0 /\ m % 10 = 0 THEN Num(m \div 10, e - 1) ELSE [m |-> m, e |-> e]

\* String(chars): the characters joined into one string
RECURSIVE Str(_)
Str(chars) == IF chars = <<>> THEN "" ELSE Head(chars) \o Str(Tail(chars))

\* String(input.location) as a sequence of characters: every use the code
\* makes of the location (RegExp.prototype.test, String.prototype.split,
\* URLSearchParams.set, a template literal) converts it to a string first,
\* and an absent property reads as undefined
LocationChars(input) ==
  IF "location" \in DOMAIN input
    THEN input.location
    ELSE <<"u", "n", "d", "e", "f", "i", "n", "e", "d">>

\* n >= 0 written with exactly width digits (leading zeros)
RECURSIVE PadDigits(_, _)
PadDigits(n, width) ==
  IF width = 0 THEN "" ELSE PadDigits(n \div 10, width - 1) \o ToString(n % 10)

\* Number.prototype.toString / `${number}` for a decimal number
NumberToString(num) ==
  LET a == Abs(num.m)
      p == Pow10(num.e)
      sign == IF num.m < 0 THEN "-" ELSE ""
  IN IF num.e = 0
       THEN sign \o ToString(a)
       ELSE sign \o ToString(a \div p) \o "." \o PadDigits(a % p, num.e)

\* number / 1000
DivideBy1000(num) == Num(num.m, num.e + 3)

\* Number(chars) for a decimal literal  -?digits[.digits*] : the digits are
\* accumulated left to right, the exponent counts the digits after the dot
RECURSIVE ParseDigits(_, _, _, _)
ParseDigits(chars, i, m, e) ==
  IF i > Len(chars) THEN [m |-> m, e |-> IF e < 0 THEN 0 ELSE e]
  ELSE IF chars[i] = "." THEN ParseDigits(chars, i + 1, m, 0)
  ELSE ParseDigits(chars, i + 1, 10 * m + DigitValue(chars[i]),
                   IF e < 0 THEN e ELSE e + 1)

Number(chars) ==
  LET neg == Len(chars) > 0 /\ chars[1] = "-"
      p == ParseDigits(chars, IF neg THEN 2 ELSE 1, 0, -1)
  IN Num(IF neg THEN -p.m ELSE p.m, p.e)

\* String.prototype.split(sep) for a one-character separator
RECURSIVE SplitFrom(_, _, _, _)
SplitFrom(chars, sep, i, cur) ==
  IF i > Len(chars) THEN <<cur>>
  ELSE IF chars[i] = sep THEN <<cur>> \o SplitFrom(chars, sep, i + 1, <<>>)
  ELSE SplitFrom(chars, sep, i + 1, Append(cur, chars[i]))

Split(chars, sep) == SplitFrom(chars, sep, 1, <<>>)

----------------------------------------------------------------------------
(* WeatherService.parseLocation: the coordinate pattern                    *)
(*   /^-?\d+\.?\d*,-?\d+\.?\d*$/                                           *)

\* position after an optional ch at position i
SkipOptional(chars, i, ch) ==
  IF i <= Len(chars) /\ chars[i] = ch THEN i + 1 ELSE i

\* position after the longest run of digits starting at position i
RECURSIVE SkipDigits(_, _)
SkipDigits(chars, i) ==
  IF i <= Len(chars) /\ chars[i] \in Digits THEN SkipDigits(chars, i + 1) ELSE i

\* the pattern without the optional sign:  \d+\.?\d*
MatchNumberUnsigned(chars, i) ==
  LET afterInt == SkipDigits(chars, i)
  IN IF afterInt = i THEN 0
     ELSE SkipDigits(chars, SkipOptional(chars, afterInt, "."))

\* position after a match of  -?\d+\.?\d*  starting at i, 0 when none
MatchNumber(chars, i) ==
  LET afterSign == SkipOptional(chars, i, "-")
      afterInt == SkipDigits(chars, afterSign)
  IN IF afterInt = afterSign THEN 0
     ELSE SkipDigits(chars, SkipOptional(chars, afterInt, "."))

\* coordPattern.test(location)
CoordPatternTest(location) ==
  LET afterLat == MatchNumber(location, 1)
  IN /\ afterLat # 0
     /\ afterLat <= Len(location)
     /\ location[afterLat] = ","
     /\ MatchNumber(location, afterLat + 1) = Len(location) + 1

\* the coordinates parseLocation returns when the pattern matches
ParseCoordinates(location) ==
  LET parts == Split(location, ",")
  IN [lat |-> Number(parts[1]), lon |-> Number(parts[2])]

----------------------------------------------------------------------------
(* Completions of a function body, thrown values *)

Return(value) == [kind |-> "return", value |-> value]

Throw(error) == [kind |-> "throw", error |-> error]

\* new Error(message), and the TypeError the runtime raises
Error(message) == [isError |-> TRUE, message |-> message]

\* a thrown value that is not an Error (the unit tests reject with a string)
NonError(value) == [isError |-> FALSE, value |-> value]

\* an array value of a property that may hold an array or something else
Array(elements) == [array |-> elements]

\* a JavaScript string found where the tool expects an array
JsString(s) == [string |-> s]

\* Array.isArray(value), for a value that is an Array, a JsString or undefined
IsArray(value) == "array" \in DOMAIN value

\* the object without properties
EmptyObject == [property \in {} |-> Undefined]

\* Array.prototype.join(sep) on an array of strings
RECURSIVE JoinWith(_, _)
JoinWith(array, sep) ==
  IF array = <<>> THEN ""
  ELSE IF Len(array) = 1 THEN array[1]
  ELSE array[1] \o sep \o JoinWith(Tail(array), sep)

\* the whole string a text (sequence of concatenated pieces) stands for
Text(tokens) == JoinWith(tokens, "")

----------------------------------------------------------------------------
(* WeatherService.geocodeLocation *)

\* the geocoding request asking for five matches
GeocodeRequestFiveMatches(apiKey, location) ==
  [endpoint |-> "/geo/1.0/direct",
   q |-> Str(location),
   limit |-> "5",
   appid |-> apiKey]

\* the request geocodeLocation sends
GeocodeRequest(apiKey, location) ==
  [endpoint |-> "/geo/1.0/direct",
   q |-> Str(location),
   limit |-> "1",
   appid |-> apiKey]

\* geocodeLocation falling back to the coordinates 0,0 when nothing matches
GeocodeLocationResumeDefaulting(location, outcome) ==
  IF outcome.settled = "rejected" THEN Throw(outcome.reason)
  ELSE IF ~outcome.ok
    THEN Throw(Error("Geocoding failed: " \o ToString(outcome.status)
                       \o " " \o outcome.statusText))
  ELSE IF Len(outcome.json) = 0
    THEN Return([lat |-> Num(0, 0), lon |-> Num(0, 0)])
  ELSE Return([lat |-> outcome.json[1].lat, lon |-> outcome.json[1].lon])

\* geocodeLocation after `await fetch(...)` has settled with outcome
GeocodeLocationResume(location, outcome) ==
  IF outcome.settled = "rejected" THEN Throw(outcome.reason)
  ELSE IF ~outcome.ok
    THEN Throw(Error("Geocoding failed: " \o ToString(outcome.status)
                       \o " " \o outcome.statusText))
  ELSE IF Len(outcome.json) = 0
    THEN Throw(Error("Location not found: " \o Str(location)))
  ELSE Return([lat |-> outcome.json[1].lat, lon |-> outcome.json[1].lon])

----------------------------------------------------------------------------
(* WeatherService.getCurrentWeather *)

\* obj.field, undefined when the property is absent
Get(obj, field) == IF field \in DOMAIN obj THEN obj[field] ELSE Undefined

\* the test without `exclude.length > 0`
ExcludeGivenWhenDefined(exclude) == exclude # Undefined

\* `exclude && exclude.length > 0`
ExcludeGiven(exclude) ==
  /\ exclude # Undefined
  /\ exclude # Array(<<>>)
  /\ exclude # JsString("")

\* getCurrentWeather up to its fetch: the request it sends, or the TypeError
\* of exclude.join when exclude is not an array
WeatherRequest(apiKey, coordinates, units, exclude) ==
  LET base == [endpoint |-> "/data/3.0/onecall",
               lat |-> NumberToString(coordinates.lat),
               lon |-> NumberToString(coordinates.lon),
               appid |-> apiKey,
               units |-> units]
  IN IF ~ExcludeGiven(exclude) THEN Return(base)
     ELSE IF ~IsArray(exclude)
       THEN Throw(Error("exclude.join is not a function"))
     ELSE Return([endpoint |-> base.endpoint, lat |-> base.lat,
                  lon |-> base.lon, appid |-> base.appid,
                  units |-> base.units,
                  exclude |-> JoinWith(exclude.array, ",")])

\* getCurrentWeather after `await fetch(...)` has settled with outcome
GetCurrentWeatherResume(outcome) ==
  IF outcome.settled = "rejected" THEN Throw(outcome.reason)
  ELSE IF ~outcome.ok
    THEN Throw(Error("Weather API request failed: " \o ToString(outcome.status)
                       \o " " \o outcome.statusText))
  ELSE Return(outcome.json)

----------------------------------------------------------------------------
(* executeCurrentWeatherTool: the report *)

HourlyLimit == 6

DailyLimit == 3

Min(a, b) == IF a < b THEN a ELSE b

\* input.units === units
UnitsIs(input, units) == "units" \in DOMAIN input /\ input.units = units

\* the units argument dropped: the provider's default is always requested
UnitsArgumentDropped(input) == "metric"

\* the units argument the tool passes on: input.units || 'metric'
UnitsArgument(input) ==
  IF "units" \in DOMAIN input /\ input.units # "" THEN input.units ELSE "metric"

\* unitsSymbol without the branch for standard
UnitsSymbolWithoutKelvin(input) ==
  IF UnitsIs(input, "imperial") THEN "°F" ELSE "°C"

\* unitsSymbol
UnitsSymbol(input) ==
  IF UnitsIs(input, "imperial") THEN "°F"
  ELSE IF UnitsIs(input, "standard") THEN "K"
  ELSE "°C"

\* the unit of the Wind Speed line
WindSpeedUnit(input) == IF UnitsIs(input, "imperial") THEN "mph" ELSE "m/s"

----------------------------------------------------------------------------
(* Date.prototype.toLocaleTimeString / toLocaleDateString, en-US, in a     *)
(* process whose local time is offset seconds ahead of UTC                 *)

\* new Date(dt * 1000).toLocaleTimeString('en-US',
\*   {hour: '2-digit', minute: '2-digit'}), e.g. "01:00 AM"
ToLocaleTimeString(dt, offset) ==
  LET secondOfDay == (dt + offset) % 86400
      hour24 == secondOfDay \div 3600
      minute == (secondOfDay % 3600) \div 60
      hour12 == IF hour24 % 12 = 0 THEN 12 ELSE hour24 % 12
  IN PadDigits(hour12, 2) \o ":" \o PadDigits(minute, 2) \o " "
       \o (IF hour24 < 12 THEN "AM" ELSE "PM")

WeekdayShort(day) ==
  <<"Sun", "Mon", "Tue", "Wed", "Thu", "Fri", "Sat">>[((day + 4) % 7) + 1]

MonthShort(month) ==
  <<"Jan", "Feb", "Mar", "Apr", "May", "Jun",
    "Jul", "Aug", "Sep", "Oct", "Nov", "Dec">>[month]

\* month and day of month of the day-th day after 1970-01-01 (Gregorian)
CivilDate(day) ==
  LET z == day + 719468
      era == z \div 146097
      doe == z - era * 146097
      yoe == (doe - doe \div 1460 + doe \div 36524 - doe \div 146096) \div 365
      doy == doe - (365 * yoe + yoe \div 4 - yoe \div 100)
      mp == (5 * doy + 2) \div 153
  IN [month |-> IF mp < 10 THEN mp + 3 ELSE mp - 9,
      day |-> doy - (153 * mp + 2) \div 5 + 1]

\* new Date(dt * 1000).toLocaleDateString('en-US',
\*   {weekday: 'short', month: 'short', day: 'numeric'}), e.g. "Fri, Jan 1"
ToLocaleDateString(dt, offset) ==
  LET day == (dt + offset) \div 86400
      date == CivilDate(day)
  IN WeekdayShort(day) \o ", " \o MonthShort(date.month) \o " "
       \o ToString(date.day)

----------------------------------------------------------------------------
(* executeCurrentWeatherTool: formatting the response (lines 36-89)        *)

\* `${weather[0]?.main}` and `${weather[0]?.description}`
WeatherMain(weather) ==
  IF Len(weather) > 0 THEN weather[1].main ELSE "undefined"

WeatherDescription(weather) ==
  IF Len(weather) > 0 THEN weather[1].description ELSE "undefined"

\* the array not cut to the limit
SliceAll(array, limit) == array

\* array.slice(0, limit)
Slice(array, limit) == SubSeq(array, 1, Min(limit, Len(array)))

\* the header naming the coordinates the location was resolved to
CurrentLinesOfCoordinates(input, current) ==
  <<"Current Weather for ",
    IF CoordPatternTest(LocationChars(input))
      THEN NumberToString(ParseCoordinates(LocationChars(input)).lat) \o ","
             \o NumberToString(ParseCoordinates(LocationChars(input)).lon)
      ELSE Str(LocationChars(input)),
    ":\n\n">>
  \o <<"Temperature: ", NumberToString(current.temp), UnitsSymbol(input), "\n">>
  \o <<"Feels like: ", NumberToString(current.feels_like), UnitsSymbol(input),
       "\n">>
  \o <<"Weather: ", WeatherMain(current.weather), " - ",
       WeatherDescription(current.weather), "\n">>
  \o <<"Humidity: ", NumberToString(current.humidity), "%\n">>
  \o <<"Pressure: ", NumberToString(current.pressure), " hPa\n">>
  \o <<"Wind Speed: ", NumberToString(current.wind_speed), " ",
       WindSpeedUnit(input), "\n">>
  \o (IF "wind_deg" \in DOMAIN current
        THEN <<"Wind Direction: ", NumberToString(current.wind_deg), "°\n">>
        ELSE <<>>)
  \o (IF "visibility" \in DOMAIN current
        THEN <<"Visibility: ", NumberToString(DivideBy1000(current.visibility)),
               " km\n">>
        ELSE <<>>)

\* the conditional lines tested by the truth of their values
CurrentLinesOfTruthyFields(input, current) ==
  <<"Current Weather for ", Str(LocationChars(input)), ":\n\n">>
  \o <<"Temperature: ", NumberToString(current.temp), UnitsSymbol(input), "\n">>
  \o <<"Feels like: ", NumberToString(current.feels_like), UnitsSymbol(input),
       "\n">>
  \o <<"Weather: ", WeatherMain(current.weather), " - ",
       WeatherDescription(current.weather), "\n">>
  \o <<"Humidity: ", NumberToString(current.humidity), "%\n">>
  \o <<"Pressure: ", NumberToString(current.pressure), " hPa\n">>
  \o <<"Wind Speed: ", NumberToString(current.wind_speed), " ",
       WindSpeedUnit(input), "\n">>
  \o (IF "wind_deg" \in DOMAIN current /\ current.wind_deg # Num(0, 0)
        THEN <<"Wind Direction: ", NumberToString(current.wind_deg), "°\n">>
        ELSE <<>>)
  \o (IF "visibility" \in DOMAIN current /\ current.visibility # Num(0, 0)
        THEN <<"Visibility: ", NumberToString(DivideBy1000(current.visibility)),
               " km\n">>
        ELSE <<>>)

\* the header and the lines of the current section
CurrentLines(input, current) ==
  <<"Current Weather for ", Str(LocationChars(input)), ":\n\n">>
  \o <<"Temperature: ", NumberToString(current.temp), UnitsSymbol(input), "\n">>
  \o <<"Feels like: ", NumberToString(current.feels_like), UnitsSymbol(input),
       "\n">>
  \o <<"Weather: ", WeatherMain(current.weather), " - ",
       WeatherDescription(current.weather), "\n">>
  \o <<"Humidity: ", NumberToString(current.humidity), "%\n">>
  \o <<"Pressure: ", NumberToString(current.pressure), " hPa\n">>
  \o <<"Wind Speed: ", NumberToString(current.wind_speed), " ",
       WindSpeedUnit(input), "\n">>
  \o (IF "wind_deg" \in DOMAIN current
        THEN <<"Wind Direction: ", NumberToString(current.wind_deg), "°\n">>
        ELSE <<>>)
  \o (IF "visibility" \in DOMAIN current
        THEN <<"Visibility: ", NumberToString(DivideBy1000(current.visibility)),
               " km\n">>
        ELSE <<>>)

\* one line of the hourly block
HourLine(input, hour, offset) ==
  <<"  ", ToLocaleTimeString(hour.dt, offset), ": ", NumberToString(hour.temp),
    UnitsSymbol(input), ", ", WeatherDescription(hour.weather), "\n">>

\* one line of the daily block
DayLine(input, day, offset) ==
  <<"  ", ToLocaleDateString(day.dt, offset), ": ",
    NumberToString(day.temp.min), UnitsSymbol(input), " - ",
    NumberToString(day.temp.max), UnitsSymbol(input), ", ",
    WeatherDescription(day.weather), "\n">>

\* one line of the alerts block; the source writes the warning sign with the
\* variation selector U+FE0F after it, which a TLA+ string cannot hold
AlertLine(alert) ==
  <<"  ⚠  ", alert.event, ": ", alert.description, "\n">>

RECURSIVE HourLines(_, _, _)
HourLines(input, hours, offset) ==
  IF hours = <<>> THEN <<>>
  ELSE HourLine(input, Head(hours), offset)
         \o HourLines(input, Tail(hours), offset)

RECURSIVE DayLines(_, _, _)
DayLines(input, days, offset) ==
  IF days = <<>> THEN <<>>
  ELSE DayLine(input, Head(days), offset)
         \o DayLines(input, Tail(days), offset)

RECURSIVE AlertLines(_)
AlertLines(alerts) ==
  IF alerts = <<>> THEN <<>>
  ELSE AlertLine(Head(alerts)) \o AlertLines(Tail(alerts))

\* input.exclude?.includes(section)
ExcludeIncludes(input, section) ==
  /\ "exclude" \in DOMAIN input
  /\ IsArray(input.exclude)
  /\ \E i \in 1..Len(input.exclude.array) : input.exclude.array[i] = section

\* the hourly block rendered whatever exclude holds
HourlyBlockIgnoringExclude(input, weatherData, offset) ==
  IF "hourly" \in DOMAIN weatherData
    THEN <<"\nNext 6 hours:\n">>
           \o HourLines(input, Slice(weatherData.hourly, HourlyLimit), offset)
    ELSE <<>>

\* lines 58-67
HourlyBlock(input, weatherData, offset) ==
  IF ~ExcludeIncludes(input, "hourly") /\ "hourly" \in DOMAIN weatherData
    THEN <<"\nNext 6 hours:\n">>
           \o HourLines(input, Slice(weatherData.hourly, HourlyLimit), offset)
    ELSE <<>>

\* lines 69-79
DailyBlock(input, weatherData, offset) ==
  IF ~ExcludeIncludes(input, "daily") /\ "daily" \in DOMAIN weatherData
    THEN <<"\nNext 3 days:\n">>
           \o DayLines(input, Slice(weatherData.daily, DailyLimit), offset)
    ELSE <<>>

\* the alerts block cut to three alerts, as the daily block is
AlertsBlockCapped(weatherData) ==
  IF "alerts" \in DOMAIN weatherData /\ Len(weatherData.alerts) > 0
    THEN <<"\nWeather Alerts:\n">>
           \o AlertLines(SubSeq(weatherData.alerts, 1,
                                Min(DailyLimit, Len(weatherData.alerts))))
    ELSE <<>>

\* lines 82-87
AlertsBlock(weatherData) ==
  IF "alerts" \in DOMAIN weatherData /\ Len(weatherData.alerts) > 0
    THEN <<"\nWeather Alerts:\n">> \o AlertLines(weatherData.alerts)
    ELSE <<>>

\* some entry has no weather list, so that `entry.weather[0]` throws
LacksWeather(entries) ==
  \E i \in 1..Len(entries) : "weather" \notin DOMAIN entries[i]

\* the hourly (daily) block is rendered and one of its entries throws
HourlyBlockThrows(input, weatherData) ==
  /\ ~ExcludeIncludes(input, "hourly")
  /\ "hourly" \in DOMAIN weatherData
  /\ LacksWeather(Slice(weatherData.hourly, HourlyLimit))

DailyBlockThrows(input, weatherData) ==
  /\ ~ExcludeIncludes(input, "daily")
  /\ "daily" \in DOMAIN weatherData
  /\ LacksWeather(Slice(weatherData.daily, DailyLimit))

\* the report with the alerts ahead of the forecasts
FormatReportAlertsFirst(input, weatherData, offset) ==
  IF "current" \notin DOMAIN weatherData
    THEN Throw(Error("Cannot read properties of undefined (reading 'temp')"))
  ELSE IF \/ HourlyBlockThrows(input, weatherData)
          \/ DailyBlockThrows(input, weatherData)
    THEN Throw(Error("Cannot read properties of undefined (reading '0')"))
    ELSE Return(CurrentLines(input, weatherData.current)
                  \o AlertsBlock(weatherData)
                  \o HourlyBlock(input, weatherData, offset)
                  \o DailyBlock(input, weatherData, offset))

\* the part of the response built before the failure returned in its place
FormatReportKeepingPrefix(input, weatherData, offset) ==
  IF "current" \notin DOMAIN weatherData
    THEN Return(<<"Current Weather for ", Str(LocationChars(input)), ":\n\n">>)
  ELSE IF \/ HourlyBlockThrows(input, weatherData)
          \/ DailyBlockThrows(input, weatherData)
    THEN Return(CurrentLines(input, weatherData.current))
    ELSE Return(CurrentLines(input, weatherData.current)
                  \o HourlyBlock(input, weatherData, offset)
                  \o DailyBlock(input, weatherData, offset)
                  \o AlertsBlock(weatherData))

\* lines 36-89: the response, or the TypeError of reading a property of the
\* undefined weatherData.current, or of the undefined weather list of a
\* forecast entry
FormatReport(input, weatherData, offset) ==
  IF "current" \notin DOMAIN weatherData
    THEN Throw(Error("Cannot read properties of undefined (reading 'temp')"))
  ELSE IF \/ HourlyBlockThrows(input, weatherData)
          \/ DailyBlockThrows(input, weatherData)
    THEN Throw(Error("Cannot read properties of undefined (reading '0')"))
    ELSE Return(CurrentLines(input, weatherData.current)
                  \o HourlyBlock(input, weatherData, offset)
                  \o DailyBlock(input, weatherData, offset)
                  \o AlertsBlock(weatherData))

\* the catch block interpolating whatever was thrown
CatchBlockInterpolatingAll(error) ==
  <<"Error getting weather data: ",
    IF error.isError THEN error.message ELSE error.value>>

\* the catch block of executeCurrentWeatherTool (lines 91-96)
CatchBlock(error) ==
  IF error.isError
    THEN <<"Error getting weather data: ", error.message>>
    ELSE <<"An unexpected error occurred while fetching weather data.">>

----------------------------------------------------------------------------
(* Startup (index.ts lines 15-24) and the tool handlers *)

EnvKey == "OPENWEATHER_API_KEY"

\* loadEnvironmentConfig: the key of the environment, absent when unset
LoadEnvironmentConfig(env) ==
  IF EnvKey \in DOMAIN env
    THEN [openWeatherApiKey |-> env[EnvKey]]
    ELSE EmptyObject

\* `if (config.openWeatherApiKey)`: set and not the empty string
ApiKeyConfigured(config) ==
  "openWeatherApiKey" \in DOMAIN config /\ config.openWeatherApiKey # ""

\* the weatherService the module holds after startup
InitialWeatherService(config) ==
  IF ApiKeyConfigured(config)
    THEN [apiKey |-> config.openWeatherApiKey]
    ELSE Null

WeatherToolName == "get-current-weather"

\* request.params.name === 'get-current-weather'
IsWeatherTool(name) == name = WeatherToolName

\* the guard `if (!weatherService)` negated
ServiceAvailable(service) == service # Null

UnavailableText ==
  <<"Weather service unavailable. Please set OPENWEATHER_API_KEY environment variable.">>

\* the weather tool as the list handler describes it
WeatherTool ==
  [name |-> "get-current-weather",
   description |-> "Get current weather and forecasts for a location",
   required |-> <<"location">>]

\* the list handler listing the weather tool with or without the service
ListToolsHandlerAlways(service) == Return([tools |-> <<WeatherTool>>])

\* the ListToolsRequestSchema handler (lines 47-82)
ListToolsHandler(service) ==
  Return([tools |-> IF ServiceAvailable(service) THEN <<WeatherTool>> ELSE <<>>])

\* { content: [{ type: 'text', text }] }
TextContent(text) == [content |-> <<[type |-> "text", text |-> text]>>]

\* the catch block throwing on what is not an Error
ExecuteCurrentWeatherToolCompletionRethrowing(body) ==
  IF body.kind = "throw" /\ body.error.isError
    THEN Return(CatchBlock(body.error))
    ELSE body

\* the try/catch of executeCurrentWeatherTool around a body that completed
\* with body: a throw is caught and turned into the returned error text
ExecuteCurrentWeatherToolCompletion(body) ==
  IF body.kind = "throw" THEN Return(CatchBlock(body.error)) ELSE body

\* the try/catch of the call handler around `await executeCurrentWeatherTool`
CallToolHandlerCompletion(executed) ==
  IF executed.kind = "return"
    THEN Return(TextContent(executed.value))
    ELSE Return(TextContent(
           <<"Error: ", IF executed.error.isError
                          THEN executed.error.message
                          ELSE "Unknown error occurred">>))

\* the response of the call handler when there is no weather service
UnavailableCompletionThrowing ==
  Throw(Error("Weather service unavailable. Please set OPENWEATHER_API_KEY environment variable."))

UnavailableCompletion == Return(TextContent(UnavailableText))

\* the unknown tool reported as text content
UnknownToolCompletionAsText(name) ==
  Return(TextContent(<<"Unknown tool: ", name>>))

\* `throw new Error(`Unknown tool: ${request.params.name}`)`
UnknownToolCompletion(name) == Throw(Error("Unknown tool: " \o name))

----------------------------------------------------------------------------
(* State: one record per tool call the protocol runtime hands to the       *)
(* handler.  pc is the await the call is suspended at.                     *)

IdleCall ==
  [pc |-> "idle", name |-> "", arguments |-> Undefined,
   requests |-> <<>>, responses |-> <<>>,
   coordinates |-> Undefined, weatherData |-> Undefined,
   caught |-> Undefined, result |-> Undefined]

\* the call completes with whatever the body completed with, nothing caught
FinishUncaught(call, body) ==
  [call EXCEPT
     !.pc = "done",
     !.caught = IF body.kind = "throw" THEN body.error ELSE @,
     !.result = IF body.kind = "throw"
                  THEN body
                  ELSE Return(TextContent(body.value))]

\* the call handler returns or throws: executeCurrentWeatherTool's body
\* completed with body
Finish(call, body) ==
  [call EXCEPT
     !.pc = "done",
     !.caught = IF body.kind = "throw" THEN body.error ELSE @,
     !.result = CallToolHandlerCompletion(
                  ExecuteCurrentWeatherToolCompletion(body))]

\* executeCurrentWeatherTool from its entry to its first await:
\* parseLocation(input.location), which either has the coordinates at once
\* or calls geocodeLocation, which sends its request
ExecuteStart(call, service, input) ==
  IF input = Undefined
    THEN Finish(call, Throw(Error(
           "Cannot read properties of undefined (reading 'location')")))
  ELSE IF CoordPatternTest(LocationChars(input))
    THEN [call EXCEPT !.pc = "resolved",
                      !.coordinates = ParseCoordinates(LocationChars(input))]
  ELSE [call EXCEPT !.pc = "geocoding",
                    !.requests = Append(@, GeocodeRequest(service.apiKey,
                                             LocationChars(input)))]

\* the CallToolRequestSchema handler, up to its first await
CallTool(c, name, arguments) ==
  /\ calls[c].pc = "idle"
  /\ LET call == [calls[c] EXCEPT !.name = name, !.arguments = arguments]
     IN calls' = [calls EXCEPT ![c] =
          IF IsWeatherTool(name)
            THEN IF ~ServiceAvailable(weatherService)
                   THEN [call EXCEPT !.pc = "done",
                                     !.result = UnavailableCompletion]
                   ELSE ExecuteStart(call, weatherService, arguments)
            ELSE [call EXCEPT !.pc = "done",
                              !.result = UnknownToolCompletion(name)]]
  /\ UNCHANGED <<weatherService, timeZoneOffset>>

\* the geocoding fetch settles and geocodeLocation, parseLocation run on
GeocodeResponse(c, outcome) ==
  /\ calls[c].pc = "geocoding"
  /\ LET call == [calls[c] EXCEPT !.responses = Append(@, outcome)]
         located == GeocodeLocationResume(LocationChars(call.arguments),
                                          outcome)
     IN calls' = [calls EXCEPT ![c] =
          IF located.kind = "throw"
            THEN Finish(call, located)
            ELSE [call EXCEPT !.pc = "resolved",
                              !.coordinates = located.value]]
  /\ UNCHANGED <<weatherService, timeZoneOffset>>

\* getCurrentWeather waiting until no other call has a request outstanding,
\* as if the calls shared one connection
FetchWeatherSerialised(c) ==
  /\ calls[c].pc = "resolved"
  /\ \A d \in DOMAIN calls \ {c} : calls[d].pc \notin {"geocoding", "fetching"}
  /\ LET call == calls[c]
         request == WeatherRequest(weatherService.apiKey, call.coordinates,
                                   UnitsArgument(call.arguments),
                                   Get(call.arguments, "exclude"))
     IN calls' = [calls EXCEPT ![c] =
          IF request.kind = "throw"
            THEN Finish(call, request)
            ELSE [call EXCEPT !.pc = "fetching",
                              !.requests = Append(@, request.value)]]
  /\ UNCHANGED <<weatherService, timeZoneOffset>>

\* `await parseLocation` resumes; getCurrentWeather sends its request
FetchWeather(c) ==
  /\ calls[c].pc = "resolved"
  /\ LET call == calls[c]
         request == WeatherRequest(weatherService.apiKey, call.coordinates,
                                   UnitsArgument(call.arguments),
                                   Get(call.arguments, "exclude"))
     IN calls' = [calls EXCEPT ![c] =
          IF request.kind = "throw"
            THEN Finish(call, request)
            ELSE [call EXCEPT !.pc = "fetching",
                              !.requests = Append(@, request.value)]]
  /\ UNCHANGED <<weatherService, timeZoneOffset>>

\* getCurrentWeather sending its request once more after a first failure
WeatherResponseRetrying(c, outcome) ==
  /\ calls[c].pc = "fetching"
  /\ LET call == [calls[c] EXCEPT !.responses = Append(@, outcome)]
         fetched == GetCurrentWeatherResume(outcome)
         sent == {i \in 1..Len(call.requests) :
                    call.requests[i].endpoint = "/data/3.0/onecall"}
     IN calls' = [calls EXCEPT ![c] =
          IF fetched.kind = "throw" /\ Cardinality(sent) = 1
            THEN [call EXCEPT !.requests = Append(@, @[Len(@)])]
          ELSE IF fetched.kind = "throw"
            THEN Finish(call, fetched)
            ELSE Finish([call EXCEPT !.weatherData = fetched.value],
                        FormatReport(call.arguments, fetched.value,
                                     timeZoneOffset))]
  /\ UNCHANGED <<weatherService, timeZoneOffset>>

\* the tool formatting with the input of the call handed over last, as if
\* the input were kept in a variable of the module
WeatherResponseSharedInput(c, outcome) ==
  /\ calls[c].pc = "fetching"
  /\ LET call == [calls[c] EXCEPT !.responses = Append(@, outcome)]
         fetched == GetCurrentWeatherResume(outcome)
         last == CHOOSE d \in DOMAIN calls :
                   /\ calls[d].pc # "idle"
                   /\ \A e \in DOMAIN calls : calls[e].pc # "idle" => e <= d
     IN calls' = [calls EXCEPT ![c] =
          IF fetched.kind = "throw"
            THEN Finish(call, fetched)
            ELSE Finish([call EXCEPT !.weatherData = fetched.value],
                        FormatReport(calls[last].arguments, fetched.value,
                                     timeZoneOffset))]
  /\ UNCHANGED <<weatherService, timeZoneOffset>>

\* the weather fetch settles; getCurrentWeather returns the payload and the
\* tool formats it
WeatherResponse(c, outcome) ==
  /\ calls[c].pc = "fetching"
  /\ LET call == [calls[c] EXCEPT !.responses = Append(@, outcome)]
         fetched == GetCurrentWeatherResume(outcome)
     IN calls' = [calls EXCEPT ![c] =
          IF fetched.kind = "throw"
            THEN Finish(call, fetched)
            ELSE Finish([call EXCEPT !.weatherData = fetched.value],
                        FormatReport(call.arguments, fetched.value,
                                     timeZoneOffset))]
  /\ UNCHANGED <<weatherService, timeZoneOffset>>

----------------------------------------------------------------------------
(* The inputs the specifications draw from *)

CallIds == {1}

\* process environments: the key unset, empty, set
Environments == {EmptyObject, [OPENWEATHER_API_KEY |-> ""],
                 [OPENWEATHER_API_KEY |-> "test-api-key"]}

\* local time offsets of the process, in seconds (UTC, New York)
TimeZoneOffsets == {0, -18000}

ToolNames == {WeatherToolName, "hello", ""}

NewYork == <<"N", "e", "w", " ", "Y", "o", "r", "k">>

LondonGB == <<"L", "o", "n", "d", "o", "n", ",", "G", "B">>

\* "40.7128,-74.0060"
NewYorkCoordinates ==
  <<"4", "0", ".", "7", "1", "2", "8", ",",
    "-", "7", "4", ".", "0", "0", "6", "0">>

\* "1.,2"
BareDotCoordinates == <<"1", ".", ",", "2">>

Locations == {NewYork, LondonGB, NewYorkCoordinates, BareDotCoordinates}

UnitsValues == {"metric", "imperial", "standard"}

Excludes == {Array(<<>>), Array(<<"hourly">>), Array(<<"daily">>),
             Array(<<"daily", "minutely", "hourly">>),
             Array(<<"current", "alerts">>), JsString("hourly")}

\* the arguments objects: every property is optional
ArgumentsOver(locations, units, excludes) ==
  {l @@ u @@ e :
     l \in {EmptyObject} \cup {[location |-> x] : x \in locations},
     u \in {EmptyObject} \cup {[units |-> x] : x \in units},
     e \in {EmptyObject} \cup {[exclude |-> x] : x \in excludes}}

Arguments == {Undefined} \cup ArgumentsOver(Locations, UnitsValues, Excludes)

\* what a fetch can settle with
Resolved(json) == [settled |-> "resolved", ok |-> TRUE, json |-> json]

Failed(status, statusText) ==
  [settled |-> "resolved", ok |-> FALSE, status |-> status,
   statusText |-> statusText]

Rejected(reason) == [settled |-> "rejected", reason |-> reason]

Rejections == {Rejected(Error("fetch failed")),
               Rejected(NonError("Unexpected error"))}

London == [name |-> "London", lat |-> Num(515074, 4), lon |-> Num(-1278, 4),
           country |-> "GB"]

Paris == [name |-> "Paris", lat |-> Num(488566, 4), lon |-> Num(23522, 4),
          country |-> "FR"]

GeocodeOutcomes ==
  {Resolved(<<>>), Resolved(<<London>>), Resolved(<<Paris, London>>),
   Failed(404, "Not Found"), Failed(401, "Unauthorized")} \cup Rejections

ClearSky == <<[id |-> 800, main |-> "Clear", description |-> "clear sky"]>>

\* current sections: every field; without the optional fields and with an
\* empty weather list; wind direction and visibility present and zero
Currents ==
  {[temp |-> Num(155, 1), feels_like |-> Num(123, 1), pressure |-> Num(1013, 0),
    humidity |-> Num(65, 0), visibility |-> Num(10000, 0),
    wind_speed |-> Num(35, 1), wind_deg |-> Num(180, 0), weather |-> ClearSky],
   [temp |-> Num(-4, 0), feels_like |-> Num(-905, 2), pressure |-> Num(998, 0),
    humidity |-> Num(100, 0), wind_speed |-> Num(0, 0), weather |-> <<>>],
   [temp |-> Num(28315, 2), feels_like |-> Num(283, 0),
    pressure |-> Num(1013, 0), humidity |-> Num(40, 0),
    visibility |-> Num(0, 0), wind_speed |-> Num(12, 0),
    wind_deg |-> Num(0, 0), weather |-> ClearSky]}

\* the i-th entry of the provider's hourly, daily and alerts sequences
HourlyEntry(i) ==
  [dt |-> 1609459200 + 3600 * i, temp |-> Num(160 + i, 1),
   weather |-> <<[id |-> 500 + i, main |-> "Rain",
                  description |-> "rain " \o ToString(i)]>>]

DailyEntry(i) ==
  [dt |-> 1609459200 + 86400 * (i - 1),
   temp |-> [min |-> Num(12 - i, 0), max |-> Num(200 + i, 1)],
   weather |-> <<[id |-> 800, main |-> "Clear",
                  description |-> "sky " \o ToString(i)]>>]

AlertEntry(i) ==
  [event |-> "Warning " \o ToString(i),
   description |-> "Heavy snow " \o ToString(i)]

\* the sequences of n entries
HourlyOf(n) == [i \in 1..n |-> HourlyEntry(i)]

DailyOf(n) == [i \in 1..n |-> DailyEntry(i)]

AlertsOf(n) == [i \in 1..n |-> AlertEntry(i)]

\* provider payloads: every section is optional
SnapshotsOver(currents, hourlyLengths, dailyLengths, alertsLengths) ==
  {c @@ h @@ d @@ a :
     c \in {EmptyObject} \cup {[current |-> x] : x \in currents},
     h \in {EmptyObject} \cup {[hourly |-> HourlyOf(n)] : n \in hourlyLengths},
     d \in {EmptyObject} \cup {[daily |-> DailyOf(n)] : n \in dailyLengths},
     a \in {EmptyObject} \cup {[alerts |-> AlertsOf(n)] : n \in alertsLengths}}

\* the payloads of the dispatch specification: a selection
Snapshots ==
  SnapshotsOver(Currents, {HourlyLimit + 1}, {1}, {})
    \cup SnapshotsOver({CHOOSE c \in Currents : "wind_deg" \notin DOMAIN c},
                       {0}, {DailyLimit + 1}, {0, 2})

WeatherOutcomes ==
  {Resolved(s) : s \in Snapshots}
    \cup {Failed(401, "Unauthorized"), Failed(500, "Internal Server Error")}
    \cup Rejections

----------------------------------------------------------------------------
(* Specification of the dispatch of a tool call *)

\* the calls the protocol runtime has yet to hand to the call handler
IdleCalls == {c \in DOMAIN calls : calls[c].pc = "idle"}

InitOver(environments, offsets) ==
  /\ \E env \in environments :
       weatherService = InitialWeatherService(LoadEnvironmentConfig(env))
  /\ timeZoneOffset \in offsets
  /\ calls = [c \in CallIds |-> IdleCall]

Init == InitOver(Environments, TimeZoneOffsets)

Next ==
  \/ \E c \in IdleCalls, name \in ToolNames, arguments \in Arguments :
       CallTool(c, name, arguments)
  \/ \E c \in DOMAIN calls, outcome \in GeocodeOutcomes :
       GeocodeResponse(c, outcome)
  \/ \E c \in DOMAIN calls : FetchWeather(c)
  \/ \E c \in DOMAIN calls, outcome \in WeatherOutcomes :
       WeatherResponse(c, outcome)

Spec == Init /\ [][Next]_vars

----------------------------------------------------------------------------
(* Specification of parseLocation: the tool is called with every location  *)
(* string of at most MaxLen characters over Alphabet                       *)

Alphabet == {"0", "7", "-", ".", ",", "x"}

\* the strings of exactly n characters
RECURSIVE StringsOfLength(_)
StringsOfLength(n) ==
  IF n = 0 THEN {<<>>}
  ELSE {Append(chars, ch) : chars \in StringsOfLength(n - 1), ch \in Alphabet}

ParseLocations == UNION {StringsOfLength(n) : n \in 0..MaxLen}

ParseGeocodeOutcomes ==
  {Resolved(<<>>), Resolved(<<Paris, London>>), Failed(404, "Not Found")}

ParseWeatherOutcomes == {Failed(401, "Unauthorized")}

InitParse ==
  InitOver({[OPENWEATHER_API_KEY |-> "test-api-key"]}, {0})

NextParse ==
  \/ \E c \in IdleCalls, location \in ParseLocations :
       CallTool(c, WeatherToolName, [location |-> location])
  \/ \E c \in DOMAIN calls, outcome \in ParseGeocodeOutcomes :
       GeocodeResponse(c, outcome)
  \/ \E c \in DOMAIN calls : FetchWeather(c)
  \/ \E c \in DOMAIN calls, outcome \in ParseWeatherOutcomes :
       WeatherResponse(c, outcome)

SpecParse == InitParse /\ [][NextParse]_vars

----------------------------------------------------------------------------
(* Specification of the report: the tool is called for provider payloads   *)
(* with every combination of sections and every length of the hourly,      *)
(* daily and alerts sequences up to one past the limits                    *)

\* the longest alerts sequence of a payload
MaxAlerts == 4

FormatLocations == {NewYork, NewYorkCoordinates}

FormatExcludes == {Array(<<>>), Array(<<"hourly">>), Array(<<"daily">>),
                   Array(<<"daily", "minutely", "hourly">>),
                   Array(<<"current", "alerts">>)}

\* the arguments of the report specification: the location is given
FormatArguments ==
  {a \in ArgumentsOver(FormatLocations, {"imperial"}, FormatExcludes) :
     "location" \in DOMAIN a}

FormatCurrents == {c \in Currents : c.weather # <<>>}

\* a forecast entry the provider sent without its weather list
WithoutWeather(entry) == [f \in DOMAIN entry \ {"weather"} |-> entry[f]]

\* payloads whose second hourly (daily) entry has no weather list
MalformedSnapshots ==
  {[current |-> c,
    hourly |-> <<HourlyEntry(1), WithoutWeather(HourlyEntry(2))>>,
    daily |-> DailyOf(1)] : c \in FormatCurrents}
    \cup {[current |-> c, hourly |-> HourlyOf(1),
           daily |-> <<DailyEntry(1), WithoutWeather(DailyEntry(2))>>,
           alerts |-> AlertsOf(1)] : c \in FormatCurrents}

FormatSnapshots ==
  SnapshotsOver(FormatCurrents, 0..(HourlyLimit + 1), 0..(DailyLimit + 1),
                0..MaxAlerts)
    \cup MalformedSnapshots

FormatGeocodeOutcomes == {Resolved(<<London>>), Resolved(<<>>)}

FormatWeatherOutcomes ==
  {Resolved(s) : s \in FormatSnapshots}
    \cup {Failed(500, "Internal Server Error")}

\* the calls suspended at the fetch of getCurrentWeather
FetchingCalls == {c \in DOMAIN calls : calls[c].pc = "fetching"}

InitFormat ==
  InitOver({[OPENWEATHER_API_KEY |-> "test-api-key"]}, TimeZoneOffsets)

NextFormat ==
  \/ \E c \in IdleCalls, arguments \in FormatArguments :
       CallTool(c, WeatherToolName, arguments)
  \/ \E c \in DOMAIN calls, outcome \in FormatGeocodeOutcomes :
       GeocodeResponse(c, outcome)
  \/ \E c \in DOMAIN calls : FetchWeather(c)
  \/ \E c \in FetchingCalls, outcome \in FormatWeatherOutcomes :
       WeatherResponse(c, outcome)

SpecFormat == InitFormat /\ [][NextFormat]_vars

----------------------------------------------------------------------------
(* Specification of several calls in flight: the protocol runtime hands    *)
(* MaxCalls calls to the call handler, and their steps and the provider's  *)
(* responses interleave in every order                                     *)

MaxCalls == 3

ConcurrentCallIds == 1..MaxCalls

ConcurrentEnvironments == {EmptyObject, [OPENWEATHER_API_KEY |-> "test-api-key"]}

ConcurrentToolNames == {WeatherToolName, "hello"}

ConcurrentArguments ==
  {[location |-> NewYork],
   [location |-> NewYorkCoordinates, units |-> "imperial",
    exclude |-> Array(<<"daily">>)],
   [location |-> NewYorkCoordinates, exclude |-> JsString("hourly")]}

ConcurrentGeocodeOutcomes == {Resolved(<<London>>), Failed(404, "Not Found")}

ConcurrentSnapshots ==
  {[current |-> CHOOSE c \in Currents : "wind_deg" \notin DOMAIN c],
   [current |-> CHOOSE c \in Currents : c.temp = Num(155, 1),
    hourly |-> HourlyOf(1), daily |-> DailyOf(1), alerts |-> AlertsOf(1)]}

ConcurrentWeatherOutcomes ==
  {Resolved(s) : s \in ConcurrentSnapshots}
    \cup {Failed(500, "Internal Server Error"),
          Rejected(NonError("Unexpected error"))}

InitConcurrent ==
  /\ \E env \in ConcurrentEnvironments :
       weatherService = InitialWeatherService(LoadEnvironmentConfig(env))
  /\ timeZoneOffset = 0
  /\ calls = [c \in ConcurrentCallIds |-> IdleCall]

NextConcurrent ==
  \/ \E c \in IdleCalls, name \in ConcurrentToolNames,
        arguments \in ConcurrentArguments :
       CallTool(c, name, arguments)
  \/ \E c \in DOMAIN calls, outcome \in ConcurrentGeocodeOutcomes :
       GeocodeResponse(c, outcome)
  \/ \E c \in DOMAIN calls : FetchWeather(c)
  \/ \E c \in FetchingCalls, outcome \in ConcurrentWeatherOutcomes :
       WeatherResponse(c, outcome)

SpecConcurrent == InitConcurrent /\ [][NextConcurrent]_vars

----------------------------------------------------------------------------
(* Specification of the completion of calls: an outbound request either is *)
(* answered or never returns.  A continuation runs once the promise it     *)
(* awaits has settled, and a request that does return returns eventually.  *)

MaxLiveCalls == 2

LiveCallIds == 1..MaxLiveCalls

LiveArguments ==
  {[location |-> NewYork], [location |-> NewYorkCoordinates, units |-> "imperial"]}

LiveGeocodeOutcomes == {Resolved(<<London>>), Failed(404, "Not Found")}

LiveWeatherOutcomes ==
  {Resolved([current |-> CHOOSE c \in Currents : c.temp = Num(155, 1)]),
   Failed(500, "Internal Server Error")}

\* what is recorded for an outbound request whose fetch never settles
NeverSettles == [settled |-> "never"]

\* the call is suspended at a fetch that has not settled
AwaitsFetch(call) ==
  /\ call.pc \in {"geocoding", "fetching"}
  /\ Len(call.responses) < Len(call.requests)

\* the calls whose outstanding request can still be answered
AwaitingCalls == {c \in DOMAIN calls : AwaitsFetch(calls[c])}

\* the outstanding request of the call is one that never returns: the call
\* stays suspended at its await
RequestNeverReturns(c) ==
  /\ AwaitsFetch(calls[c])
  /\ calls' = [calls EXCEPT ![c].responses = Append(@, NeverSettles)]
  /\ UNCHANGED <<weatherService, timeZoneOffset>>

InitLive ==
  /\ weatherService = InitialWeatherService(
                        LoadEnvironmentConfig([OPENWEATHER_API_KEY |-> "test-api-key"]))
  /\ timeZoneOffset = 0
  /\ calls = [c \in LiveCallIds |-> IdleCall]

NextLive ==
  \/ \E c \in IdleCalls, arguments \in LiveArguments :
       CallTool(c, WeatherToolName, arguments)
  \/ \E c \in AwaitingCalls, outcome \in LiveGeocodeOutcomes :
       GeocodeResponse(c, outcome)
  \/ \E c \in DOMAIN calls : FetchWeather(c)
  \/ \E c \in AwaitingCalls, outcome \in LiveWeatherOutcomes :
       WeatherResponse(c, outcome)
  \/ \E c \in AwaitingCalls : RequestNeverReturns(c)

\* the geocoder, the weather provider answer the outstanding request of c
GeocoderAnswers(c) ==
  /\ c \in AwaitingCalls
  /\ \E outcome \in LiveGeocodeOutcomes : GeocodeResponse(c, outcome)

ProviderAnswers(c) ==
  /\ c \in AwaitingCalls
  /\ \E outcome \in LiveWeatherOutcomes : WeatherResponse(c, outcome)

FairnessLive ==
  \A c \in LiveCallIds :
    /\ WF_vars(FetchWeather(c))
    /\ WF_vars(GeocoderAnswers(c))
    /\ WF_vars(ProviderAnswers(c))

SpecLive == InitLive /\ [][NextLive]_vars /\ FairnessLive

----------------------------------------------------------------------------
(* Vocabulary of the properties *)

GeoEndpoint == "/geo/1.0/direct"

OneCallEndpoint == "/data/3.0/onecall"

\* the call has been handed to the call handler as a get-current-weather call
WeatherCall(call) == call.pc # "idle" /\ call.name = "get-current-weather"

\* the call handler returned a text response
ReturnedText(call) ==
  /\ call.pc = "done"
  /\ call.result.kind = "return"
  /\ DOMAIN call.result.value = {"content"}
  /\ Len(call.result.value.content) = 1
  /\ call.result.value.content[1].type = "text"

\* the pieces of the returned text, and the text itself
ResponseTokens(call) == call.result.value.content[1].text

ResponseText(call) == Text(ResponseTokens(call))

\* the returned text is a report
IsReport(call) ==
  /\ ReturnedText(call)
  /\ ResponseTokens(call)[1] = "Current Weather for "

\* the positions of the requests sent to an endpoint
RequestsTo(call, endpoint) ==
  {i \in 1..Len(call.requests) : call.requests[i].endpoint = endpoint}

\* the token k places after the first occurrence of label in a text
TokenAfter(tokens, label, k) ==
  tokens[(CHOOSE i \in 1..Len(tokens) : tokens[i] = label) + k]

----------------------------------------------------------------------------
(* C1: one dispatch of get-current-weather issues at most two outbound     *)
(* requests, strictly one after the other: at most one geocoding request,  *)
(* which can only be the first, then at most one weather request, which is *)
(* the last request of the dispatch.  At most one request is outstanding   *)
(* at any time.  The weather request exists only once the Resolver has     *)
(* returned coordinates: when a geocoding request was sent, its response   *)
(* was a success with at least one match.                                  *)
AtMostTwoSequentialRequests ==
  \A c \in DOMAIN calls :
    LET call == calls[c]
        geo == RequestsTo(call, GeoEndpoint)
        onecall == RequestsTo(call, OneCallEndpoint)
    IN /\ Len(call.requests) <= 2
       /\ geo \cup onecall = 1..Len(call.requests)
       /\ Cardinality(geo) <= 1
       /\ Cardinality(onecall) <= 1
       /\ geo \subseteq {1}
       /\ onecall \subseteq {Len(call.requests)}
       /\ Len(call.requests) - Len(call.responses) \in {0, 1}
       /\ onecall # {} =>
            /\ call.coordinates # Undefined
            /\ geo # {} =>
                 /\ Len(call.responses) >= 1
                 /\ call.responses[1].settled = "resolved"
                 /\ call.responses[1].ok
                 /\ Len(call.responses[1].json) >= 1
       /\ (call.pc = "done" /\ call.coordinates = Undefined) => onecall = {}

\* a dispatch that geocoded, fetched and returned a report
GeocodedThenFetched ==
  \E c \in DOMAIN calls :
    /\ IsReport(calls[c])
    /\ Len(calls[c].requests) = 2
    /\ calls[c].requests[1].endpoint = GeoEndpoint
    /\ calls[c].requests[2].endpoint = OneCallEndpoint
    /\ Len(calls[c].responses) = 2

----------------------------------------------------------------------------
(* C2: a get-current-weather call that has completed always completed     *)
(* with a text response, whatever failed on the way (resolving, fetching,  *)
(* formatting, absent or malformed arguments); the call handler throws     *)
(* only for a tool name other than get-current-weather.                    *)
FailuresEndInText ==
  \A c \in DOMAIN calls :
    calls[c].pc = "done" =>
      /\ calls[c].name = "get-current-weather" => ReturnedText(calls[c])
      /\ calls[c].result.kind = "throw" =>
           calls[c].name # "get-current-weather"
      /\ calls[c].caught # Undefined => ReturnedText(calls[c])

\* a failure raised while formatting a fetched payload ended in text
FormatFailureEndedInText ==
  \E c \in DOMAIN calls :
    /\ calls[c].weatherData # Undefined
    /\ calls[c].caught # Undefined
    /\ ReturnedText(calls[c])

----------------------------------------------------------------------------
(* C3: with no API key configured at startup (weatherService is null) a    *)
(* get-current-weather call, whatever its arguments, has completed at once *)
(* with exactly the fixed unavailability text as a normal text response,   *)
(* and has sent no request.                                                *)
UnavailableWithoutApiKey ==
  \A c \in DOMAIN calls :
    (weatherService = Null /\ WeatherCall(calls[c])) =>
      /\ ReturnedText(calls[c])
      /\ ResponseText(calls[c]) =
           "Weather service unavailable. Please set OPENWEATHER_API_KEY environment variable."
      /\ calls[c].requests = <<>>

\* a call with a location answered with the unavailability text
UnavailableAnswered ==
  \E c \in DOMAIN calls :
    /\ weatherService = Null
    /\ WeatherCall(calls[c])
    /\ calls[c].arguments # Undefined
    /\ "location" \in DOMAIN calls[c].arguments
    /\ ReturnedText(calls[c])

----------------------------------------------------------------------------
(* C4: a call whose tool name is not get-current-weather has completed at  *)
(* once by throwing the error 'Unknown tool: <name>', not by returning     *)
(* text, with and without a weather service, and has sent no request.      *)
UnknownToolThrows ==
  \A c \in DOMAIN calls :
    (calls[c].pc # "idle" /\ calls[c].name # "get-current-weather") =>
      /\ calls[c].pc = "done"
      /\ calls[c].result =
           [kind |-> "throw",
            error |-> [isError |-> TRUE,
                       message |-> "Unknown tool: " \o calls[c].name]]
      /\ calls[c].requests = <<>>

\* the tool 'hello' was called on a server that has a weather service
UnknownToolCalledWithService ==
  \E c \in DOMAIN calls :
    /\ weatherService # Null
    /\ calls[c].pc = "done"
    /\ calls[c].name = "hello"

----------------------------------------------------------------------------
(* C5: a get-current-weather call whose arguments have no location sends   *)
(* no geocoding and no weather request and never has coordinates.          *)
NoRequestWithoutLocation ==
  \A c \in DOMAIN calls :
    (/\ WeatherCall(calls[c])
     /\ \/ calls[c].arguments = Undefined
        \/ "location" \notin DOMAIN calls[c].arguments) =>
      /\ calls[c].requests = <<>>
      /\ calls[c].coordinates = Undefined

----------------------------------------------------------------------------
\* the provider's unit systems: units parameter, temperature symbol, wind unit
UnitSystems ==
  {[units |-> "metric", symbol |-> "°C", wind |-> "m/s"],
   [units |-> "imperial", symbol |-> "°F", wind |-> "mph"],
   [units |-> "standard", symbol |-> "K", wind |-> "m/s"]}

(* C6: for units unset, metric, imperial or standard, the units parameter  *)
(* of the weather request is the units of the call (metric when unset),    *)
(* and the temperature symbol and the wind-speed unit of the report are    *)
(* those of the unit system that was requested: metric with °C and m/s,    *)
(* imperial with °F and mph, standard with K and m/s.                      *)
UnitsThreadedToBothEnds ==
  \A c \in DOMAIN calls :
    IsReport(calls[c]) =>
      LET call == calls[c]
          requested == call.requests[Len(call.requests)].units
      IN /\ call.requests[Len(call.requests)].endpoint = OneCallEndpoint
         /\ requested = IF "units" \in DOMAIN call.arguments
                          THEN call.arguments.units ELSE "metric"
         /\ [units |-> requested,
             symbol |-> TokenAfter(ResponseTokens(call), "Temperature: ", 2),
             wind |-> TokenAfter(ResponseTokens(call), "Wind Speed: ", 3)]
              \in UnitSystems

\* a report in standard units
StandardUnitsReported ==
  \E c \in DOMAIN calls :
    /\ IsReport(calls[c])
    /\ "units" \in DOMAIN calls[c].arguments
    /\ calls[c].arguments.units = "standard"

----------------------------------------------------------------------------
\* the symbol and the wind unit the units of a call map to
TemperatureSymbols == {"°F", "K", "°C"}

ExpectedSymbol(arguments) ==
  IF "units" \in DOMAIN arguments /\ arguments.units = "imperial" THEN "°F"
  ELSE IF "units" \in DOMAIN arguments /\ arguments.units = "standard" THEN "K"
  ELSE "°C"

ExpectedWindUnit(arguments) ==
  IF "units" \in DOMAIN arguments /\ arguments.units = "imperial"
    THEN "mph" ELSE "m/s"

(* C7: the temperature symbol of a report is °F for imperial, K for        *)
(* standard and °C otherwise; the wind-speed unit is mph for imperial and  *)
(* m/s otherwise.  Every temperature of the report carries that symbol:    *)
(* Temperature, Feels like, each hourly line and the minimum and maximum   *)
(* of each daily line.                                                     *)
\* the forecast lines are the lines that start with two spaces; a daily line
\* has " - " between its two temperatures
UnitMappingExact ==
  \A c \in DOMAIN calls :
    IsReport(calls[c]) =>
      LET tokens == ResponseTokens(calls[c])
          symbol == ExpectedSymbol(calls[c].arguments)
      IN /\ TokenAfter(tokens, "Temperature: ", 2) = symbol
         /\ TokenAfter(tokens, "Feels like: ", 2) = symbol
         /\ TokenAfter(tokens, "Wind Speed: ", 3)
              = ExpectedWindUnit(calls[c].arguments)
         /\ \A i \in 1..Len(tokens) :
              /\ tokens[i] \in TemperatureSymbols => tokens[i] = symbol
              /\ tokens[i] = "  " =>
                   /\ tokens[i + 4] = symbol
                   /\ tokens[i + 5] = " - " => tokens[i + 7] = symbol

\* a report in standard units with hourly and daily lines
StandardUnitsForecastReported ==
  \E c \in DOMAIN calls :
    /\ IsReport(calls[c])
    /\ "units" \in DOMAIN calls[c].arguments
    /\ calls[c].arguments.units = "standard"
    /\ \E i \in 1..Len(ResponseTokens(calls[c])) :
         ResponseTokens(calls[c])[i] = "\nNext 6 hours:\n"
    /\ \E i \in 1..Len(ResponseTokens(calls[c])) :
         ResponseTokens(calls[c])[i] = "\nNext 3 days:\n"

----------------------------------------------------------------------------
(* C10: the text of a failed get-current-weather call depends on the       *)
(* caught value only: 'Error getting weather data: ' followed by the       *)
(* message when it is a standard error, the fixed generic sentence when it *)
(* is anything else.  A geocoding response 404 Not Found gives             *)
(* 'Error getting weather data: Geocoding failed: 404 Not Found'.          *)
ErrorTextFromThrownValue ==
  \A c \in DOMAIN calls :
    (calls[c].pc = "done" /\ calls[c].caught # Undefined) =>
      /\ ReturnedText(calls[c])
      /\ ResponseText(calls[c]) =
           IF calls[c].caught.isError
             THEN "Error getting weather data: " \o calls[c].caught.message
             ELSE "An unexpected error occurred while fetching weather data."
      /\ (/\ Len(calls[c].responses) = 1
          /\ calls[c].responses[1] =
               [settled |-> "resolved", ok |-> FALSE, status |-> 404,
                statusText |-> "Not Found"]
          /\ calls[c].requests[1].endpoint = GeoEndpoint) =>
           ResponseText(calls[c]) =
             "Error getting weather data: Geocoding failed: 404 Not Found"

\* a fetch rejected with a value that is not an error
NonErrorCaught ==
  \E c \in DOMAIN calls :
    /\ calls[c].pc = "done"
    /\ calls[c].caught # Undefined
    /\ ~calls[c].caught.isError

----------------------------------------------------------------------------
(* The '<num>,<num>' form of a location, written from its description      *)

\* positions a..b of chars hold one or more digits
DigitRun(chars, a, b) ==
  a <= b /\ \A i \in a..b : chars[i] \in {"0", "1", "2", "3", "4", "5", "6", "7", "8", "9"}

SignLength(chars) == IF Len(chars) > 0 /\ chars[1] = "-" THEN 1 ELSE 0

\* an optional '-', digits, and optionally a fraction: '.' and digits
IsNumeral(chars) ==
  LET first == SignLength(chars) + 1
  IN \/ DigitRun(chars, first, Len(chars))
     \/ \E dot \in first + 1..Len(chars) - 1 :
          /\ chars[dot] = "."
          /\ DigitRun(chars, first, dot - 1)
          /\ DigitRun(chars, dot + 1, Len(chars))

\* as IsNumeral, or digits followed by a '.' with no digit after it
IsNumeralOrBareDot(chars) ==
  \/ IsNumeral(chars)
  \/ /\ Len(chars) > 0
     /\ chars[Len(chars)] = "."
     /\ DigitRun(chars, SignLength(chars) + 1, Len(chars) - 1)

CommaPositions(chars) == {k \in 1..Len(chars) : chars[k] = ","}

LeftOf(chars, k) == SubSeq(chars, 1, k - 1)

RightOf(chars, k) == SubSeq(chars, k + 1, Len(chars))

IsCoordinateForm(chars) ==
  \E k \in CommaPositions(chars) :
    IsNumeral(LeftOf(chars, k)) /\ IsNumeral(RightOf(chars, k))

IsCoordinateOrBareDotForm(chars) ==
  \E k \in CommaPositions(chars) :
    /\ IsNumeralOrBareDot(LeftOf(chars, k))
    /\ IsNumeralOrBareDot(RightOf(chars, k))

\* the number a numeral denotes: its digits read as an integer, scaled by
\* the number of digits after the '.'
RECURSIVE DigitsValue(_)
DigitsValue(chars) ==
  IF chars = <<>> THEN 0
  ELSE IF chars[Len(chars)] \in {"-", "."}
    THEN DigitsValue(SubSeq(chars, 1, Len(chars) - 1))
  ELSE 10 * DigitsValue(SubSeq(chars, 1, Len(chars) - 1))
         + DigitValue(chars[Len(chars)])

FractionLength(chars) ==
  IF \E k \in 1..Len(chars) : chars[k] = "."
    THEN Len(chars) - (CHOOSE k \in 1..Len(chars) : chars[k] = ".")
    ELSE 0

NumeralValue(chars) ==
  Num(IF SignLength(chars) = 1 THEN -DigitsValue(chars) ELSE DigitsValue(chars),
      FractionLength(chars))

\* the call is a get-current-weather call with a location string
LocatedCall(call) ==
  /\ WeatherCall(call)
  /\ call.arguments # Undefined
  /\ "location" \in DOMAIN call.arguments

----------------------------------------------------------------------------
(* C8: for a location of the form '<num>,<num>' the tool has, from the     *)
(* moment it is called, the coordinates lat = the first number and lon =   *)
(* the second number, and it never sends a geocoding request.              *)
CoordinateStringParsedWithoutGeocoding ==
  \A c \in DOMAIN calls :
    (LocatedCall(calls[c]) /\ IsCoordinateForm(calls[c].arguments.location)) =>
      LET location == calls[c].arguments.location
          comma == CHOOSE k \in CommaPositions(location) : TRUE
      IN /\ calls[c].coordinates =
              [lat |-> NumeralValue(LeftOf(location, comma)),
               lon |-> NumeralValue(RightOf(location, comma))]
         /\ RequestsTo(calls[c], GeoEndpoint) = {}
         /\ calls[c].pc # "geocoding"

\* a coordinate string with a negative longitude went to the weather fetch
NegativeLongitudeFetched ==
  \E c \in DOMAIN calls :
    /\ LocatedCall(calls[c])
    /\ IsCoordinateForm(calls[c].arguments.location)
    /\ calls[c].pc = "fetching"
    /\ calls[c].coordinates.lon.m < 0
    /\ calls[c].coordinates.lat # calls[c].coordinates.lon

----------------------------------------------------------------------------
\* the call sent one geocoding request and continued from its response
Geocoded(call) ==
  LET location == call.arguments.location
  IN /\ Cardinality(RequestsTo(call, GeoEndpoint)) = 1
     /\ call.requests[1].endpoint = GeoEndpoint
     /\ call.requests[1].q = Str(location)
     /\ call.requests[1].limit = "1"
     /\ Len(call.responses) >= 1 =>
          LET response == call.responses[1]
          IN IF ~response.ok
               THEN /\ call.pc = "done"
                    /\ call.caught =
                         [isError |-> TRUE,
                          message |-> "Geocoding failed: "
                                        \o ToString(response.status) \o " "
                                        \o response.statusText]
             ELSE IF Len(response.json) = 0
               THEN /\ call.pc = "done"
                    /\ call.caught =
                         [isError |-> TRUE,
                          message |-> "Location not found: " \o Str(location)]
             ELSE call.coordinates = [lat |-> response.json[1].lat,
                                      lon |-> response.json[1].lon]

(* C9: what resolve does for a location that is geocoded: exactly one      *)
(* geocoding request, the first request of the call, with q the location   *)
(* and limit 1; a non-success response fails with 'Geocoding failed:       *)
(* <status> <statusText>', a success without match fails with 'Location    *)
(* not found: <location>', any other success gives the lat and lon of the  *)
(* first match.  This holds for every location that is not of the         *)
(* '<num>,<num>' form.                                                     *)
EveryOtherLocationGeocoded ==
  \A c \in DOMAIN calls :
    (LocatedCall(calls[c]) /\ ~IsCoordinateForm(calls[c].arguments.location))
      => Geocoded(calls[c])

(* C9, amended: the same for every location that is not of the            *)
(* '<num>,<num>' form when a number may also end in a '.' that no digit    *)
(* follows, which is what the coordinate pattern accepts.                  *)
EveryUnmatchedLocationGeocoded ==
  \A c \in DOMAIN calls :
    (/\ LocatedCall(calls[c])
     /\ ~IsCoordinateOrBareDotForm(calls[c].arguments.location))
      => Geocoded(calls[c])

\* a place name with a comma in it was geocoded and not found
CommaPlaceNameNotFound ==
  \E c \in DOMAIN calls :
    /\ LocatedCall(calls[c])
    /\ CommaPositions(calls[c].arguments.location) # {}
    /\ ~IsCoordinateOrBareDotForm(calls[c].arguments.location)
    /\ calls[c].pc = "done"
    /\ Len(calls[c].responses) = 1
    /\ calls[c].responses[1].ok
    /\ calls[c].responses[1].json = <<>>

----------------------------------------------------------------------------
(* Vocabulary of the properties of the report *)

HourlyHeader == "\nNext 6 hours:\n"

DailyHeader == "\nNext 3 days:\n"

AlertsHeader == "\nWeather Alerts:\n"

SectionHeaders == {HourlyHeader, DailyHeader, AlertsHeader}

\* the places of a piece of text in a text
Positions(tokens, label) == {i \in 1..Len(tokens) : tokens[i] = label}

\* the text has the piece
Has(tokens, label) == Positions(tokens, label) # {}

\* the place of a piece that occurs in the text
PositionOf(tokens, label) == CHOOSE i \in Positions(tokens, label) : TRUE

\* the exclude argument of the call lists the section
ExcludeContains(call, section) ==
  /\ "exclude" \in DOMAIN call.arguments
  /\ section \in {call.arguments.exclude.array[i] :
                    i \in 1..Len(call.arguments.exclude.array)}

\* the provider's payload of the call has the section
SnapshotHas(call, section) == section \in DOMAIN call.weatherData

\* the place after the last piece of the block whose header is at place p:
\* the next section header, or the end of the text
BlockEnd(tokens, p) ==
  LET later == {q \in (p + 1)..Len(tokens) : tokens[q] \in SectionHeaders}
  IN IF later = {} THEN Len(tokens) + 1
     ELSE CHOOSE q \in later : \A r \in later : q <= r

\* the places where the lines of the block at p start with the piece indent
LineStarts(tokens, p, indent) ==
  {i \in (p + 1)..(BlockEnd(tokens, p) - 1) : tokens[i] = indent}

\* the n-th smallest member of a set of places
NthOf(places, n) ==
  CHOOSE x \in places : Cardinality({y \in places : y < x}) = n - 1

\* the place of the line break that ends the line starting at place s
LineEnd(tokens, s) ==
  CHOOSE e \in s..Len(tokens) :
    /\ tokens[e] = "\n"
    /\ \A j \in s..(e - 1) : tokens[j] # "\n"

\* the calls that returned a report
Reports == {c \in DOMAIN calls : IsReport(calls[c])}

\* min(limit, n)
Shown(limit, n) == IF n < limit THEN n ELSE limit

----------------------------------------------------------------------------
(* C11: the hourly block ('Next 6 hours:') is in the report if and only if *)
(* exclude does not contain 'hourly' and the snapshot has an hourly        *)
(* sequence, and the daily block ('Next 3 days:') if and only if exclude   *)
(* does not contain 'daily' and the snapshot has a daily sequence.         *)
BlocksFollowExcludeAndSnapshot ==
  \A c \in Reports :
    LET call == calls[c]
        tokens == ResponseTokens(call)
    IN /\ Has(tokens, HourlyHeader)
            <=> (~ExcludeContains(call, "hourly") /\ SnapshotHas(call, "hourly"))
       /\ Has(tokens, DailyHeader)
            <=> (~ExcludeContains(call, "daily") /\ SnapshotHas(call, "daily"))

\* a report without the hourly block for a payload with hourly entries,
\* 'hourly' being excluded, and with the daily block
HourlyExcludedDespiteData ==
  \E c \in Reports :
    LET call == calls[c]
        tokens == ResponseTokens(call)
    IN /\ ExcludeContains(call, "hourly")
       /\ ~ExcludeContains(call, "daily")
       /\ SnapshotHas(call, "hourly")
       /\ Len(call.weatherData.hourly) > 0
       /\ ~Has(tokens, HourlyHeader)
       /\ Has(tokens, DailyHeader)

----------------------------------------------------------------------------
(* C12: for a snapshot with n hourly and m daily entries the hourly block  *)
(* has exactly min(6, n) entries and the daily block exactly min(3, m),    *)
(* and they are the first entries of the snapshot in their order.          *)
FirstEntriesRendered ==
  \A c \in Reports :
    LET call == calls[c]
        tokens == ResponseTokens(call)
        hourStarts == LineStarts(tokens, PositionOf(tokens, HourlyHeader), "  ")
        dayStarts == LineStarts(tokens, PositionOf(tokens, DailyHeader), "  ")
    IN /\ Has(tokens, HourlyHeader) =>
            /\ Cardinality(hourStarts) = Shown(6, Len(call.weatherData.hourly))
            /\ \A i \in 1..Cardinality(hourStarts) :
                 LET s == NthOf(hourStarts, i)
                     hour == call.weatherData.hourly[i]
                 IN /\ tokens[s + 3] = NumberToString(hour.temp)
                    /\ tokens[LineEnd(tokens, s) - 1]
                         = hour.weather[1].description
       /\ Has(tokens, DailyHeader) =>
            /\ Cardinality(dayStarts) = Shown(3, Len(call.weatherData.daily))
            /\ \A i \in 1..Cardinality(dayStarts) :
                 LET s == NthOf(dayStarts, i)
                     day == call.weatherData.daily[i]
                 IN /\ tokens[s + 3] = NumberToString(day.temp.min)
                    /\ tokens[LineEnd(tokens, s) - 1]
                         = day.weather[1].description

\* a report for a payload with more hourly and daily entries than are shown
LongForecastsCut ==
  \E c \in Reports :
    LET call == calls[c]
        tokens == ResponseTokens(call)
    IN /\ Has(tokens, HourlyHeader)
       /\ Has(tokens, DailyHeader)
       /\ Len(call.weatherData.hourly) > 6
       /\ Len(call.weatherData.daily) > 3

----------------------------------------------------------------------------
(* C13: the alerts block ('Weather Alerts:') is in the report if and only  *)
(* if the snapshot has one or more alerts; it then has exactly one line    *)
(* per alert of the snapshot, in the snapshot's order and without a cap,   *)
(* each made of the warning sign, the event, ': ' and the description.     *)
OneLinePerAlert ==
  \A c \in Reports :
    LET call == calls[c]
        tokens == ResponseTokens(call)
        p == PositionOf(tokens, AlertsHeader)
        starts == LineStarts(tokens, p, "  ⚠  ")
    IN /\ Has(tokens, AlertsHeader)
            <=> (SnapshotHas(call, "alerts") /\ Len(call.weatherData.alerts) >= 1)
       /\ Has(tokens, AlertsHeader) =>
            /\ Cardinality(starts) = Len(call.weatherData.alerts)
            /\ BlockEnd(tokens, p) - (p + 1) = 5 * Cardinality(starts)
            /\ \A i \in 1..Cardinality(starts) :
                 LET s == NthOf(starts, i)
                     alert == call.weatherData.alerts[i]
                 IN /\ tokens[s + 1] = alert.event
                    /\ tokens[s + 2] = ": "
                    /\ tokens[s + 3] = alert.description
                    /\ tokens[s + 4] = "\n"

\* a report with more alerts than the forecasts have entries
ManyAlertsReported ==
  \E c \in Reports :
    /\ Has(ResponseTokens(calls[c]), AlertsHeader)
    /\ Len(calls[c].weatherData.alerts) > 3

----------------------------------------------------------------------------
\* the starts of the header, of the lines of the current section and of the
\* blocks, in the order the claim gives them
OrderedLabels ==
  <<"Current Weather for ", "Temperature: ", "Feels like: ", "Weather: ",
    "Humidity: ", "Pressure: ", "Wind Speed: ", "Wind Direction: ",
    "Visibility: ", HourlyHeader, DailyHeader, AlertsHeader>>

(* C14: in every report the sections are in the order header and current,  *)
(* hourly, daily, alerts, whichever of them are present, and the lines of  *)
(* the current section in the order Temperature, Feels like, Weather,      *)
(* Humidity, Pressure, Wind Speed, then Wind Direction and Visibility.     *)
SectionsInFixedOrder ==
  \A c \in Reports :
    LET tokens == ResponseTokens(calls[c])
    IN /\ \A i \in 1..Len(OrderedLabels) :
            Cardinality(Positions(tokens, OrderedLabels[i]))
              <= 1
       /\ \A i \in 1..7 : Has(tokens, OrderedLabels[i])
       /\ PositionOf(tokens, OrderedLabels[1]) = 1
       /\ \A i, j \in 1..Len(OrderedLabels) :
            i < j =>
              \A p \in Positions(tokens, OrderedLabels[i]),
                 q \in Positions(tokens, OrderedLabels[j]) : p < q

\* a report with every line of the current section and every block
EverySectionReported ==
  \E c \in Reports :
    \A i \in 1..Len(OrderedLabels) :
      Has(ResponseTokens(calls[c]), OrderedLabels[i])

----------------------------------------------------------------------------
(* C15: the report never has an empty section header: whenever 'Next 6     *)
(* hours:', 'Next 3 days:' or 'Weather Alerts:' is in it, at least one     *)
(* entry line follows; a section with nothing to render, absent or with    *)
(* zero entries, produces no output.                                       *)
NoEmptySectionHeader ==
  \A c \in Reports :
    LET tokens == ResponseTokens(calls[c])
    IN \A h \in SectionHeaders :
         Has(tokens, h) =>
           BlockEnd(tokens, PositionOf(tokens, h)) > PositionOf(tokens, h) + 1

----------------------------------------------------------------------------
\* the piece of text every block of a section has: the first line of the
\* current section, the headers of the others
BlockMark(section) ==
  CASE section = "current" -> "Temperature: "
    [] section = "hourly" -> HourlyHeader
    [] section = "daily" -> DailyHeader
    [] section = "alerts" -> AlertsHeader

(* C16: every section named in the caller's exclude is omitted from the    *)
(* upstream request, whose exclude parameter is set, and from the report:  *)
(* for each of current, hourly, daily and alerts that exclude contains,    *)
(* the report has no block for it, whatever the provider's snapshot has.   *)
ExcludedSectionsOmitted ==
  \A c \in DOMAIN calls :
    \A section \in {"current", "hourly", "daily", "alerts"} :
      LET call == calls[c] IN
      (WeatherCall(call) /\ call.arguments # Undefined
         /\ ExcludeContains(call, section)) =>
        /\ \A i \in RequestsTo(call, OneCallEndpoint) :
             "exclude" \in DOMAIN call.requests[i]
        /\ IsReport(call) => ~Has(ResponseTokens(call), BlockMark(section))

----------------------------------------------------------------------------
\* the sections joined with commas, built from the last one back
RECURSIVE CommaJoined(_)
CommaJoined(sections) ==
  IF Len(sections) = 0 THEN ""
  ELSE IF Len(sections) = 1 THEN sections[1]
  ELSE CommaJoined(SubSeq(sections, 1, Len(sections) - 1))
         \o "," \o sections[Len(sections)]

\* the exclude argument of the call is present and not empty
ExcludeNonEmpty(call) ==
  /\ "exclude" \in DOMAIN call.arguments
  /\ call.arguments.exclude \notin {Array(<<>>), JsString("")}

(* C18: the outbound weather request carries an exclude parameter if and   *)
(* only if the exclude argument is present and non-empty; the parameter is *)
(* then the given sections joined with commas in the given order, and is   *)
(* left out when exclude is unset or empty.  The units parameter is always *)
(* carried, and is metric when units is not given.                         *)
ExcludeSerialisedWhenNonEmpty ==
  \A c \in DOMAIN calls :
    \A i \in RequestsTo(calls[c], OneCallEndpoint) :
      LET call == calls[c]
          request == call.requests[i]
      IN /\ ("exclude" \in DOMAIN request) <=> ExcludeNonEmpty(call)
         /\ ExcludeNonEmpty(call) =>
              request.exclude = CommaJoined(call.arguments.exclude.array)
         /\ "units" \in DOMAIN request
         /\ request.units = IF "units" \in DOMAIN call.arguments
                              THEN call.arguments.units
                              ELSE "metric"

\* a request for three excluded sections and no units
ThreeSectionsExcluded ==
  \E c \in DOMAIN calls :
    \E i \in RequestsTo(calls[c], OneCallEndpoint) :
      /\ "units" \notin DOMAIN calls[c].arguments
      /\ "exclude" \in DOMAIN calls[c].requests[i]
      /\ calls[c].requests[i].exclude = "daily,minutely,hourly"
      /\ calls[c].requests[i].units = "metric"

----------------------------------------------------------------------------
\* the texts the tool returns for a failure start with one of these
ErrorTextStarts ==
  {"Error getting weather data: ",
   "An unexpected error occurred while fetching weather data."}

(* C19: a weather call has no partial result: the returned text is either  *)
(* a full report, which begins with 'Current Weather for' and has every    *)
(* body line and every line of its blocks, or an error text; when a step   *)
(* fails, also while the report is being built, nothing of the report      *)
(* built so far is returned.                                               *)
FullReportOrErrorText ==
  \A c \in DOMAIN calls :
    LET call == calls[c]
        tokens == ResponseTokens(call)
    IN (WeatherCall(call) /\ call.pc = "done") =>
         /\ ReturnedText(call)
         /\ \/ /\ tokens[1] = "Current Weather for "
               /\ call.caught = Undefined
               /\ \A i \in 1..7 : Has(tokens, OrderedLabels[i])
               /\ Has(tokens, HourlyHeader) =>
                    Cardinality(LineStarts(tokens,
                                  PositionOf(tokens, HourlyHeader), "  "))
                      = Shown(6, Len(call.weatherData.hourly))
               /\ Has(tokens, DailyHeader) =>
                    Cardinality(LineStarts(tokens,
                                  PositionOf(tokens, DailyHeader), "  "))
                      = Shown(3, Len(call.weatherData.daily))
            \/ /\ tokens[1] \in ErrorTextStarts
               /\ call.caught # Undefined
               /\ ~Has(tokens, "Current Weather for ")
               /\ \A i \in 1..Len(OrderedLabels) :
                    ~Has(tokens, OrderedLabels[i])

\* a call that failed at the second hourly entry, after the header, the
\* current section and an hourly line had been built
FailedWhileBuildingReport ==
  \E c \in DOMAIN calls :
    /\ calls[c].pc = "done"
    /\ calls[c].weatherData # Undefined
    /\ "current" \in DOMAIN calls[c].weatherData
    /\ calls[c].caught = Error("Cannot read properties of undefined (reading '0')")
    /\ ResponseTokens(calls[c])[1] = "Error getting weather data: "

----------------------------------------------------------------------------
\* the call has invoked getCurrentWeather: parseLocation returned its
\* coordinates and the tool went on
InvokedFetcher(call) ==
  call.pc \in {"fetching", "done"} /\ call.coordinates # Undefined

\* the exclude of the call is one the signature of getCurrentWeather admits:
\* unset or an array
ExcludeWellTyped(call) ==
  "exclude" \notin DOMAIN call.arguments \/ IsArray(call.arguments.exclude)

\* what the last outbound request of the call settled with
LastResponse(call) == call.responses[Len(call.responses)]

----------------------------------------------------------------------------
\* what the call handler completes with for a call handled on its own, the
\* outbound requests settling with the given responses in their order
ResponseAlone(service, offset, name, arguments, responses) ==
  LET Caught(body) ==
        CallToolHandlerCompletion(ExecuteCurrentWeatherToolCompletion(body))
      location == LocationChars(arguments)
      located == IF CoordPatternTest(location)
                   THEN Return(ParseCoordinates(location))
                   ELSE GeocodeLocationResume(location, responses[1])
      request == WeatherRequest(service.apiKey, located.value,
                                UnitsArgument(arguments),
                                Get(arguments, "exclude"))
      fetched == GetCurrentWeatherResume(responses[Len(responses)])
  IN IF ~IsWeatherTool(name) THEN UnknownToolCompletion(name)
     ELSE IF ~ServiceAvailable(service) THEN UnavailableCompletion
     ELSE IF located.kind = "throw" THEN Caught(located)
     ELSE IF request.kind = "throw" THEN Caught(request)
     ELSE IF fetched.kind = "throw" THEN Caught(fetched)
     ELSE Caught(FormatReport(arguments, fetched.value, offset))

\* every finished call has the response of the same call handled on its own
ResponsesAsAlone ==
  \A c \in DOMAIN calls :
    calls[c].pc = "done" =>
      calls[c].result = ResponseAlone(weatherService, timeZoneOffset,
                                      calls[c].name, calls[c].arguments,
                                      calls[c].responses)

(* C20: with several tool calls in flight at once, under every             *)
(* interleaving of their steps and of the provider's responses, each       *)
(* call's response equals the response it produces when run alone with the *)
(* same arguments and the same provider responses; no step of a call       *)
(* changes another call, and the credential configured at startup is never *)
(* modified.                                                               *)
CallsAreIsolated ==
  /\ []ResponsesAsAlone
  /\ [][/\ weatherService' = weatherService
        /\ \E c \in DOMAIN calls :
             \A d \in DOMAIN calls \ {c} : calls'[d] = calls[d]]_vars

\* a call has returned its report while two others with other arguments
\* are in flight, one waiting for the geocoder and one for the weather
ReportedWhileOthersInFlight ==
  \E c, d, e \in DOMAIN calls :
    /\ IsReport(calls[c])
    /\ calls[d].pc = "geocoding"
    /\ calls[e].pc = "fetching"
    /\ calls[c].arguments # calls[d].arguments
    /\ calls[c].arguments # calls[e].arguments

----------------------------------------------------------------------------
\* the call has an outbound request that never returns
Hung(call) ==
  /\ Len(call.responses) > 0
  /\ call.responses[Len(call.responses)] = NeverSettles

(* C21: if every outbound request of a tool call eventually returns, with  *)
(* a success or a failure, the call eventually produces a response; a call *)
(* whose outbound request never returns never completes, there being no    *)
(* timeout, cancellation or retry; and such a call does not keep the other *)
(* calls in flight from completing.                                        *)
CallsCompleteUnlessHung ==
  /\ \A c \in LiveCallIds :
       [](calls[c].pc # "idle" => <>(calls[c].pc = "done" \/ Hung(calls[c])))
  /\ [](\A c \in LiveCallIds :
          Hung(calls[c]) => calls[c].pc \in {"geocoding", "fetching"})
  /\ [][\A c \in LiveCallIds : Hung(calls[c]) => calls'[c] = calls[c]]_vars

\* a call has returned its report while the weather request of another
\* call never returns
ReportedWhileOtherHung ==
  \E c, d \in DOMAIN calls :
    /\ Hung(calls[c])
    /\ calls[c].pc = "fetching"
    /\ IsReport(calls[d])

----------------------------------------------------------------------------
(* C22: every report begins with 'Current Weather for <location>:' and a   *)
(* blank line, <location> being the location string of the tool call as it *)
(* was given: for a place name never the geocoder's name or coordinates,   *)
(* for a coordinate string the original text and not the numbers rendered  *)
(* again.                                                                  *)
HeaderNamesGivenLocation ==
  \A c \in Reports :
    LET call == calls[c]
        tokens == ResponseTokens(call)
    IN "location" \in DOMAIN call.arguments =>
         /\ tokens[1] = "Current Weather for "
         /\ tokens[2] = Str(call.arguments.location)
         /\ tokens[3] = ":\n\n"
         /\ \A i \in RequestsTo(call, GeoEndpoint) :
              /\ tokens[2] = call.requests[i].q
              /\ \A match \in {London, Paris} : tokens[2] # match.name

\* a report for the coordinate string "40.7128,-74.0060", whose longitude
\* the request renders as -74.006
CoordinateTextKept ==
  \E c \in Reports :
    /\ "location" \in DOMAIN calls[c].arguments
    /\ calls[c].arguments.location = NewYorkCoordinates
    /\ ResponseTokens(calls[c])[2] = "40.7128,-74.0060"
    /\ \E i \in RequestsTo(calls[c], OneCallEndpoint) :
         calls[c].requests[i].lon = "-74.006"

----------------------------------------------------------------------------
\* the tool names the list handler returns
ListedNames ==
  LET tools == ListToolsHandler(weatherService).value.tools
  IN {tools[i].name : i \in 1..Len(tools)}

\* the call handler failed the call for its unknown tool name
UnknownToolFailure(call) ==
  /\ call.pc = "done"
  /\ call.result.kind = "throw"
  /\ call.result.error = Error("Unknown tool: " \o call.name)

\* the call handler answered the call otherwise
Accepted(call) == call.pc = "done" /\ ~UnknownToolFailure(call)

----------------------------------------------------------------------------
(* C24: the Wind Direction line is in the report if and only if the        *)
(* current section of the snapshot has a wind direction, and the           *)
(* Visibility line if and only if it has a visibility; the field being     *)
(* present decides, not its value: a wind direction of 0 and a visibility  *)
(* of 0 are rendered as 'Wind Direction: 0°' and 'Visibility: 0 km', and   *)
(* an absent field gives no line and no failure.                           *)
ConditionalLinesFollowPresence ==
  \A c \in DOMAIN calls :
    LET call == calls[c]
        current == call.weatherData.current
        tokens == ResponseTokens(call)
    IN (call.pc = "done" /\ call.weatherData # Undefined
          /\ "current" \in DOMAIN call.weatherData) =>
         /\ IsReport(call)
         /\ Has(tokens, "Wind Direction: ") <=> "wind_deg" \in DOMAIN current
         /\ Has(tokens, "Visibility: ") <=> "visibility" \in DOMAIN current
         /\ "wind_deg" \in DOMAIN current =>
              /\ TokenAfter(tokens, "Wind Direction: ", 1)
                   = NumberToString(current.wind_deg)
              /\ TokenAfter(tokens, "Wind Direction: ", 2) = "°\n"
              /\ current.wind_deg = Num(0, 0) =>
                   TokenAfter(tokens, "Wind Direction: ", 1) = "0"
         /\ "visibility" \in DOMAIN current =>
              /\ TokenAfter(tokens, "Visibility: ", 1)
                   = NumberToString(DivideBy1000(current.visibility))
              /\ TokenAfter(tokens, "Visibility: ", 2) = " km\n"
              /\ current.visibility = Num(0, 0) =>
                   TokenAfter(tokens, "Visibility: ", 1) = "0"

\* a report with the lines 'Wind Direction: 0°' and 'Visibility: 0 km'
ZeroFieldsRendered ==
  \E c \in Reports :
    LET current == calls[c].weatherData.current
        tokens == ResponseTokens(calls[c])
    IN /\ "wind_deg" \in DOMAIN current /\ current.wind_deg = Num(0, 0)
       /\ "visibility" \in DOMAIN current /\ current.visibility = Num(0, 0)
       /\ TokenAfter(tokens, "Wind Direction: ", 1) = "0"
       /\ TokenAfter(tokens, "Visibility: ", 1) = "0"

----------------------------------------------------------------------------
\* the starts of the texts the call handler returns for get-current-weather
ResponseForms ==
  {UnavailableText[1], "Current Weather for ", "Error getting weather data: ",
   "An unexpected error occurred while fetching weather data."}

(* C25: every text response of the call handler for get-current-weather    *)
(* has one of four forms: the unavailability message, a report beginning   *)
(* with 'Current Weather for ', a text beginning with 'Error getting       *)
(* weather data: ', or the generic message 'An unexpected error occurred   *)
(* while fetching weather data.'.  executeCurrentWeatherTool never         *)
(* rejects: the catch branch of the call handler is not reached and no     *)
(* response begins with 'Error: '.                                         *)
ResponseOfFourForms ==
  \A c \in DOMAIN calls :
    LET call == calls[c]
        tokens == ResponseTokens(call)
    IN (WeatherCall(call) /\ call.pc = "done") =>
         /\ ReturnedText(call)
         /\ tokens[1] \in ResponseForms
         /\ tokens[1] # "Error: "
         /\ tokens[1] = UnavailableText[1] => tokens = UnavailableText
         /\ tokens[1] = "An unexpected error occurred while fetching weather data."
              => Len(tokens) = 1

\* a call without arguments: the tool throws before its first await, and
\* the throw ends in its own error text
ThrownBeforeFirstAwait ==
  \E c \in DOMAIN calls :
    /\ WeatherCall(calls[c]) /\ calls[c].pc = "done"
    /\ calls[c].arguments = Undefined
    /\ weatherService # Null
    /\ ResponseTokens(calls[c])[1] = "Error getting weather data: "

====
